---- MODULE Spec2Model ----
(***************************************************************************)
(* A model of LnNodeCLNgRPC (src/app/lightning/impl/cln_grpc.py), the Core *)
(* Lightning gRPC implementation of the Lightning node facade.             *)
(*                                                                         *)
(* All coroutines run on one cooperative scheduler: the code between two   *)
(* suspension points (await, yield) is one atomic action.  The            *)
(* specifications share the variables:                                     *)
(*   Spec      the connection manager (initialize) interleaved with other  *)
(*             public operations;                                          *)
(*   SpecLive  the connection manager with a daemon that comes up and a    *)
(*             consumer that keeps consuming, under weak fairness;         *)
(*   SpecList  the listing operations on a facade that is READY;           *)
(*   SpecRound list_all_tx without pagination on the same records;         *)
(*   SpecSeq   list_all_tx calls run one after another, step by step;      *)
(*   SpecTasks list_all_tx calls run concurrently;                         *)
(*   SpecOps   the operations with an error classification;                *)
(*   SpecSub   the two subscriptions on a facade that is READY.            *)
(***************************************************************************)
EXTENDS Integers, Sequences, FiniteSets, TLC

\* Connection attempts (iterations of the while loop) of one initialize() call.
MaxAttempts == 4
\* Calls of initialize() in one run.
MaxCalls == 2

NoHandle == 0   \* Python None for _channel / _cln_stub

\* The backoff of an OFFLINE cycle, asyncio.sleep(2).
Backoff == 2

VARIABLES
    \* ---- the facade's attributes (class LnNodeCLNgRPC, lines 105-111)
    _initialized,   \* BOOLEAN
    _channel,       \* NoHandle or the id of the transport handle
    _cln_stub,      \* NoHandle or the id of the handle the stub was built on
    cln_stub,       \* the attribute written by line 177: "absent" or "None"
    creds,          \* self.creds: "unset" or "set"
    \* ---- the environment of initialize()
    config_ok,      \* the cln_grpc_* settings decode as hex
    handles,        \* number of transport handles created so far
    closed,         \* set of handle ids that were closed
    \* ---- the running initialize() generator
    init_pc,        \* where the generator is
    calls,          \* initialize() calls made
    attempts,       \* loop iterations of the current call
    events,         \* what the current call did, in order
    outcomes,       \* outcome of each connection attempt of the current call
    ready_at_call,  \* _initialized when the current call was made
    snap,           \* the facade's attributes when the current call was made
    \* ---- other public operations
    op_result,      \* the last such operation: what it issued, how it ended
    op_trace,       \* what that call did, in order: RPCs, log records, ...
    sse,            \* the messages handed to broadcast_sse_msg, in order
    \* ---- list_all_tx calls as tasks of the scheduler
    t_pc,           \* per task: "idle", "gather", "decode" or "ended"
    t_pos,          \* per task: the payment whose decode it awaits
    t_kind,         \* per task: how its last call ended
    t_calls,        \* list_all_tx calls started
    decodes,        \* the decode_pay_request calls issued, in order
    writes,         \* the keys written into _memo_cache (line 299), in order
    \* ---- the backend's records, as the listing RPCs return them
    invoices,       \* ListInvoices: sequence of [time_stamp, status]
    pay_index,      \* pay_index of each invoice, 0 while it is not paid
    onchain,        \* list_on_chain_tx: sequence of [time_stamp, num_confirmations]
    pays,           \* ListPays: sequence of [time_stamp, status, bolt11]
    _memo_cache,    \* the bolt11 strings whose decoding is cached
    \* ---- a listing call
    arg_flag,       \* successful_only / pending_only / include_incomplete
    arg_offset,     \* index_offset
    arg_limit,      \* max_tx / num_max_invoices / max_payments
    list_result,    \* the last listing call and what it returned
    tx_fwd,         \* what the last list_all_tx(reversed=False) returned
    \* ---- listen_invoices
    li_pc,          \* where the generator is
    lastpay_index,  \* its local lastpay_index
    li_waits,       \* the lastpay_index of each WaitAnyInvoice issued
    li_yielded,     \* the invoices yielded, in order
    li_scan_high,   \* number of invoices paid when the initial scan answered
    \* ---- listen_forward_events
    forwards,       \* ListForwards(status=settled): the backend's list
    fw_pc,          \* where the generator is
    num_fwd_last_poll,  \* its local watermark
    fw_res,         \* res.forwards of the poll being processed
    fw_i,           \* how many entries of the new suffix were yielded
    fw_yielded,     \* the forwards yielded, in order
    fw_base,        \* the watermark set by the first fetch
    fw_last_count   \* the length of the last ListForwards answer

conn_vars == <<_initialized, _channel, _cln_stub, cln_stub, creds, config_ok,
               handles, closed, init_pc, calls, attempts, events, outcomes,
               ready_at_call, snap>>
task_vars == <<t_pc, t_pos, t_kind, t_calls, decodes, writes>>
op_vars == <<op_result, op_trace, sse, task_vars>>
list_vars == <<invoices, pay_index, onchain, pays, _memo_cache, arg_flag,
               arg_offset, arg_limit, list_result, tx_fwd>>
sub_vars == <<li_pc, lastpay_index, li_waits, li_yielded, li_scan_high,
              forwards, fw_pc, num_fwd_last_poll, fw_res, fw_i, fw_yielded,
              fw_base, fw_last_count>>

\* The attributes a call of initialize() can change.
Facade == <<_initialized, _channel, _cln_stub, cln_stub, creds, handles, closed>>

\* op: the operation; ready: _initialized when it ran; rpc: the backend RPC it
\* issued, "none" when it issued none; kind: "entity" (a domain entity or
\* list is returned), "http" (an HTTPException is raised, code is its status),
\* "None" (None is returned); value: the value_msat of a returned Invoice.
Result(op, ready, rpc, kind, code, value) ==
    [op |-> op, ready |-> ready, rpc |-> rpc, kind |-> kind, code |-> code,
     value |-> value]

NoResult == Result("none", FALSE, "none", "none", 0, 0)

\* The entries of op_trace.
Step(e, name, arg) == [e |-> e, name |-> name, arg |-> arg]
\* An RPC is issued on the stub; arg is what the claims need of the request.
Rpc(name, arg) == Step("rpc", name, arg)
\* A logger call of the operation's own code that carries the error detail.
Log(level, detail) == Step("log", level, detail)
\* broadcast_sse_msg is awaited.
Broadcast(id) == Step("sse", id, 0)
\* An HTTPException leaves the coroutine.
Raise(code) == Step("raise", "HTTPException", code)
\* Another exception leaves the body: the decorator logs it, None is returned.
Caught(exc) == Step("caught", exc, 0)
\* The call with its input, the answer of an RPC, the entity returned.
Call(op, input) == Step("call", op, input)
Answer(name, a) == Step("answer", name, a)
Return(name, entity) == Step("return", name, entity)

\* Concurrent list_all_tx calls.
MaxTasks == 2
Tasks == 1 .. MaxTasks

\* No operation was called, no list_all_tx task runs.
OpIdle ==
    /\ op_result = NoResult
    /\ op_trace = <<>>
    /\ sse = <<>>
    /\ t_pc = [t \in Tasks |-> "idle"]
    /\ t_pos = [t \in Tasks |-> 0]
    /\ t_kind = [t \in Tasks |-> "none"]
    /\ t_calls = 0
    /\ decodes = <<>>
    /\ writes = <<>>

NoList == [op |-> "none", reversed |-> FALSE, kind |-> "none", code |-> 0,
           items |-> <<>>]
NoFwd == [set |-> FALSE, items |-> <<>>]

\* No backend records and no listing call: the listing variables of the
\* specifications that do not list.
ListIdle ==
    /\ invoices = <<>>
    /\ pay_index = <<>>
    /\ onchain = <<>>
    /\ pays = <<>>
    /\ _memo_cache = {}
    /\ arg_flag = FALSE
    /\ arg_offset = 0
    /\ arg_limit = 0
    /\ list_result = NoList
    /\ tx_fwd = NoFwd

\* No subscription was started and no payment was forwarded.
SubIdle ==
    /\ li_pc = "idle"
    /\ lastpay_index = 0
    /\ li_waits = <<>>
    /\ li_yielded = <<>>
    /\ li_scan_high = 0
    /\ forwards = <<>>
    /\ fw_pc = "idle"
    /\ num_fwd_last_poll = 0
    /\ fw_res = <<>>
    /\ fw_i = 0
    /\ fw_yielded = <<>>
    /\ fw_base = 0
    /\ fw_last_count = 0

InitConn ==
    /\ ListIdle
    /\ SubIdle
    /\ _initialized = FALSE
    /\ _channel = NoHandle
    /\ _cln_stub = NoHandle
    /\ cln_stub = "absent"
    /\ creds = "unset"
    /\ config_ok \in BOOLEAN
    /\ handles = 0
    /\ closed = {}
    /\ init_pc = "idle"
    /\ calls = 0
    /\ attempts = 0
    /\ events = <<>>
    /\ outcomes = <<>>
    /\ ready_at_call = FALSE
    /\ snap = Facade
    /\ OpIdle

\* Positions at which the generator is suspended (or does not run): the only
\* positions at which another coroutine can run.
Suspended ==
    {"idle", "created", "yield126", "getinfo163", "yield165", "yield171",
     "close176", "sleep182", "ended", "raised"}

Ev(name, h) == <<name, h>>

\* The caller calls initialize(): an async generator object is made, no line
\* of the body runs yet.
initialize_call ==
    /\ init_pc \in {"idle", "ended", "raised"}
    /\ calls < MaxCalls
    /\ calls' = calls + 1
    /\ init_pc' = "created"
    /\ attempts' = 0
    /\ events' = <<>>
    /\ outcomes' = <<>>
    /\ ready_at_call' = _initialized
    /\ snap' = Facade
    /\ UNCHANGED <<_initialized, _channel, _cln_stub, cln_stub, creds,
                   config_ok, handles, closed>>
    /\ UNCHANGED <<op_vars, list_vars, sub_vars>>

\* Lines 128-152: decode the settings (sys.exit on a ValueError), build the
\* credentials, and reach the head of the while loop.
Prologue ==
    IF config_ok
    THEN creds' = "set" /\ init_pc' = "loop154"
    ELSE creds' = creds /\ init_pc' = "exit"

\* initialize_first without the test of line 119.
initialize_first_unguarded ==
    /\ init_pc = "created"
    /\ events' = events
    /\ Prologue
    /\ UNCHANGED <<_initialized, _channel, _cln_stub, cln_stub, config_ok,
                   handles, closed, calls, attempts, outcomes, ready_at_call,
                   snap>>
    /\ UNCHANGED <<op_vars, list_vars, sub_vars>>

\* Lines 118-126, then 128-152 when not initialized: the first step of the
\* generator.
initialize_first ==
    /\ init_pc = "created"
    /\ IF _initialized
       THEN /\ events' = Append(events, Ev("yield_DONE", 0))
            /\ init_pc' = "yield126"
            /\ creds' = creds
       ELSE /\ events' = events
            /\ Prologue
    /\ UNCHANGED <<_initialized, _channel, _cln_stub, cln_stub, config_ok,
                   handles, closed, calls, attempts, outcomes, ready_at_call,
                   snap>>
    /\ UNCHANGED <<op_vars, list_vars, sub_vars>>

\* The consumer asks for the next update after the DONE of line 126: there is
\* no return after that yield, the body goes on with line 128.
initialize_resume126 ==
    /\ init_pc = "yield126"
    /\ Prologue
    /\ UNCHANGED <<_initialized, _channel, _cln_stub, cln_stub, config_ok,
                   handles, closed, calls, attempts, events, outcomes,
                   ready_at_call, snap>>
    /\ UNCHANGED <<op_vars, list_vars, sub_vars>>

\* Line 154 to the await of line 163 (or to line 186 when the loop ends).
\* Creating the handle can raise; line 183 catches that, logs, and the loop
\* goes on.
initialize_loop ==
    /\ init_pc = "loop154"
    /\ IF _initialized
       THEN /\ init_pc' = "ended"
            /\ UNCHANGED <<_channel, _cln_stub, handles, attempts, events,
                           outcomes>>
       ELSE /\ attempts < MaxAttempts
            /\ attempts' = attempts + 1
            /\ IF _channel = NoHandle
               THEN \E created \in BOOLEAN :
                      IF created
                      THEN /\ handles' = handles + 1
                           /\ _channel' = handles + 1
                           /\ _cln_stub' = handles + 1
                           /\ events' = events \o
                                <<Ev("create", handles + 1),
                                  Ev("Getinfo", handles + 1)>>
                           /\ outcomes' = outcomes
                           /\ init_pc' = "getinfo163"
                      ELSE /\ events' = Append(events, Ev("logged", 0))
                           /\ outcomes' = Append(outcomes, "exception")
                           /\ init_pc' = "loop154"
                           /\ UNCHANGED <<_channel, _cln_stub, handles>>
               ELSE /\ events' = Append(events, Ev("Getinfo", _cln_stub))
                    /\ outcomes' = outcomes
                    /\ init_pc' = "getinfo163"
                    /\ UNCHANGED <<_channel, _cln_stub, handles>>
    /\ UNCHANGED <<_initialized, cln_stub, creds, config_ok, closed, calls,
                   ready_at_call, snap>>
    /\ UNCHANGED <<op_vars, list_vars, sub_vars>>

\* The answer of the liveness RPC.  "offline" is an AioRpcError whose details
\* contain "failed to connect to all addresses", "rpc_error" any other
\* AioRpcError, "exception" any exception that is no AioRpcError.
GetinfoOutcomes == {"ok", "offline", "rpc_error", "exception"}

\* Lines 163-184, from the answer of Getinfo to the next suspension.
initialize_getinfo(o) ==
    /\ init_pc = "getinfo163"
    /\ outcomes' = Append(outcomes, o)
    /\ CASE o = "ok" ->
              /\ _initialized' = TRUE
              /\ events' = Append(events, Ev("yield_DONE", 0))
              /\ init_pc' = "yield165"
         [] o = "offline" ->
              /\ _initialized' = _initialized
              /\ events' = Append(events, Ev("yield_OFFLINE", 0))
              /\ init_pc' = "yield171"
         [] o = "rpc_error" ->
              /\ _initialized' = _initialized
              /\ events' = Append(events, Ev("raise", 0))
              /\ init_pc' = "raised"
         [] o = "exception" ->
              /\ _initialized' = _initialized
              /\ events' = Append(events, Ev("logged", 0))
              /\ init_pc' = "loop154"
    /\ UNCHANGED <<_channel, _cln_stub, cln_stub, creds, config_ok, handles,
                   closed, calls, attempts, ready_at_call, snap>>
    /\ UNCHANGED <<op_vars, list_vars, sub_vars>>

\* The consumer asks for the next update after the DONE of line 165.
initialize_resume165 ==
    /\ init_pc = "yield165"
    /\ init_pc' = "loop154"
    /\ UNCHANGED <<_initialized, _channel, _cln_stub, cln_stub, creds,
                   config_ok, handles, closed, calls, attempts, events,
                   outcomes, ready_at_call, snap>>
    /\ UNCHANGED <<op_vars, list_vars, sub_vars>>

\* The consumer asks for the next update after the OFFLINE of line 171:
\* line 176 closes the handle and awaits.
initialize_resume171 ==
    /\ init_pc = "yield171"
    /\ closed' = closed \cup {_channel}
    /\ events' = Append(events, Ev("close", _channel))
    /\ init_pc' = "close176"
    /\ UNCHANGED <<_initialized, _channel, _cln_stub, cln_stub, creds,
                   config_ok, handles, calls, attempts, outcomes,
                   ready_at_call, snap>>
    /\ UNCHANGED <<op_vars, list_vars, sub_vars>>

\* initialize_discard that keeps the closed handle in _channel.
initialize_discard_keeps_channel ==
    /\ init_pc = "close176"
    /\ cln_stub' = "None"
    /\ events' = events \o <<Ev("discard", _channel), Ev("sleep", Backoff)>>
    /\ init_pc' = "sleep182"
    /\ UNCHANGED <<_initialized, _channel, _cln_stub, creds, config_ok, handles,
                   closed, calls, attempts, outcomes, ready_at_call, snap>>
    /\ UNCHANGED <<op_vars, list_vars, sub_vars>>

\* Line 177, self._channel = self.cln_stub = None, then the sleep of line 182.
\* The attribute written is cln_stub: _cln_stub keeps the stub of the closed
\* handle.
initialize_discard ==
    /\ init_pc = "close176"
    /\ _channel' = NoHandle
    /\ cln_stub' = "None"
    /\ events' = events \o <<Ev("discard", _channel), Ev("sleep", Backoff)>>
    /\ init_pc' = "sleep182"
    /\ UNCHANGED <<_initialized, _cln_stub, creds, config_ok, handles, closed,
                   calls, attempts, outcomes, ready_at_call, snap>>
    /\ UNCHANGED <<op_vars, list_vars, sub_vars>>

\* initialize_wake of a loop that gives up after the first OFFLINE cycle.
initialize_wake_gives_up ==
    /\ init_pc = "sleep182"
    /\ init_pc' = "ended"
    /\ UNCHANGED <<_initialized, _channel, _cln_stub, cln_stub, creds,
                   config_ok, handles, closed, calls, attempts, events,
                   outcomes, ready_at_call, snap>>
    /\ UNCHANGED <<op_vars, list_vars, sub_vars>>

\* The sleep of line 182 is over: back to the head of the loop.
initialize_wake ==
    /\ init_pc = "sleep182"
    /\ init_pc' = "loop154"
    /\ UNCHANGED <<_initialized, _channel, _cln_stub, cln_stub, creds,
                   config_ok, handles, closed, calls, attempts, events,
                   outcomes, ready_at_call, snap>>
    /\ UNCHANGED <<op_vars, list_vars, sub_vars>>

\* ------------------------------------------------------------------------
\* Other public operations.  Each is a coroutine decorated with
\* @logger.catch(exclude=(HTTPException,)): an HTTPException leaves the
\* coroutine, any other exception is logged by the decorator and the
\* coroutine returns None.

\* value_msat arguments of add_invoice range over -1 .. MaxMsat.
MaxMsat == 2

HTTP_500 == 500

\* What the stub's channel can answer to an RPC: a closed handle only fails.
\* "rst_stream" is an AioRpcError whose details contain "Received RST_STREAM
\* with error code 8", "rpc_error" an AioRpcError with other details.
RpcAnswers(h) ==
    IF h \in closed THEN {"rpc_error"} ELSE {"ok", "rst_stream", "rpc_error"}

\* How a decorated coroutine ends when exception exc leaves its body.
LoggerCatch(op, rpc, exc, code) ==
    IF exc = "HTTPException"
    THEN Result(op, _initialized, rpc, "http", code, 0)
    ELSE Result(op, _initialized, rpc, "None", 0, 0)

\* _handle_base_cln_error: the status it raises, 0 when it returns.
HandleBaseClnError(answer) ==
    IF answer = "rst_stream" THEN HTTP_500 ELSE 0

\* get_wallet_balance: no except clause around the ListFunds RPC.
get_wallet_balance ==
    /\ init_pc \in Suspended
    /\ IF _cln_stub = NoHandle
       THEN /\ op_result' =
              LoggerCatch("get_wallet_balance", "none", "AttributeError", 0)
            /\ op_trace' = <<Caught("AttributeError")>>
       ELSE \E a \in RpcAnswers(_cln_stub) :
              /\ op_result' =
                IF a = "ok"
                THEN Result("get_wallet_balance", _initialized, "ListFunds",
                            "entity", 0, 0)
                ELSE LoggerCatch("get_wallet_balance", "ListFunds",
                                 "AioRpcError", 0)
              /\ op_trace' = IF a = "ok" THEN <<Rpc("ListFunds", 0)>>
                             ELSE <<Rpc("ListFunds", 0), Caught("AioRpcError")>>
    /\ UNCHANGED <<sse, task_vars>>
    /\ UNCHANGED <<conn_vars, list_vars, sub_vars>>

\* get_ln_info: an AioRpcError becomes an HTTPException 500, from
\* _handle_base_cln_error or from line 763.
get_ln_info ==
    /\ init_pc \in Suspended
    /\ IF _cln_stub = NoHandle
       THEN /\ op_result' =
                 LoggerCatch("get_ln_info", "none", "AttributeError", 0)
            /\ op_trace' = <<Caught("AttributeError")>>
       ELSE \E a \in RpcAnswers(_cln_stub) :
              /\ op_result' =
                IF a = "ok"
                THEN Result("get_ln_info", _initialized, "Getinfo", "entity",
                            0, 0)
                ELSE LoggerCatch("get_ln_info", "Getinfo", "HTTPException",
                                 IF HandleBaseClnError(a) # 0
                                 THEN HandleBaseClnError(a) ELSE HTTP_500)
              /\ op_trace' = IF a = "ok" THEN <<Rpc("Getinfo", 0)>>
                             ELSE <<Rpc("Getinfo", 0), Log("debug", a),
                                    Raise(HTTP_500)>>
    /\ UNCHANGED <<sse, task_vars>>
    /\ UNCHANGED <<conn_vars, list_vars, sub_vars>>

\* AmountOrAny that never asks for any amount.
AmountOrAnyOfZero(value_msat) == [any |-> FALSE, amount |-> value_msat]

\* Lines 497-501: the amount_msat of the InvoiceRequest.
AmountOrAny(value_msat) ==
    IF value_msat = 0 THEN [any |-> TRUE, amount |-> 0]
    ELSE [any |-> FALSE, amount |-> value_msat]

\* Lines 513-520: the Invoice that add_invoice builds from its arguments.
NewInvoice(value_msat) == [value_msat |-> value_msat, state |-> "OPEN"]

\* add_invoice(value_msat): a negative value raises ValueError before any RPC.
add_invoice(value_msat) ==
    /\ init_pc \in Suspended
    /\ IF value_msat < 0
       THEN /\ op_result' =
                 LoggerCatch("add_invoice", "none", "ValueError", 0)
            /\ op_trace' = <<Call("add_invoice", value_msat),
                             Caught("ValueError")>>
       ELSE IF _cln_stub = NoHandle
       THEN /\ op_result' =
                 LoggerCatch("add_invoice", "none", "AttributeError", 0)
            /\ op_trace' = <<Call("add_invoice", value_msat),
                             Caught("AttributeError")>>
       ELSE \E a \in RpcAnswers(_cln_stub) :
              /\ op_result' =
                IF a = "ok"
                THEN Result("add_invoice", _initialized, "Invoice", "entity",
                            0, NewInvoice(value_msat).value_msat)
                ELSE LoggerCatch("add_invoice", "Invoice", "HTTPException",
                                 IF HandleBaseClnError(a) # 0
                                 THEN HandleBaseClnError(a) ELSE HTTP_500)
              /\ op_trace' =
                   <<Call("add_invoice", value_msat),
                     Rpc("Invoice", AmountOrAny(value_msat)),
                     Answer("Invoice", a)>>
                   \o (IF a = "ok"
                       THEN <<Return("Invoice", NewInvoice(value_msat))>>
                       ELSE <<Log("debug", a), Raise(HTTP_500)>>)
    /\ UNCHANGED <<sse, task_vars>>
    /\ UNCHANGED <<conn_vars, list_vars, sub_vars>>

vars == <<conn_vars, op_vars, list_vars, sub_vars>>

Next ==
    \/ initialize_call
    \/ initialize_first
    \/ initialize_resume126
    \/ initialize_loop
    \/ \E o \in GetinfoOutcomes : initialize_getinfo(o)
    \/ initialize_resume165
    \/ initialize_resume171
    \/ initialize_discard
    \/ initialize_wake
    \/ get_wallet_balance
    \/ get_ln_info
    \/ \E v \in -1 .. MaxMsat : add_invoice(v)

Spec == InitConn /\ [][Next]_vars

\* The connection manager with valid settings, a daemon that is unreachable
\* for some attempts and then answers the liveness RPC, and a consumer that
\* keeps asking for the next update.  The daemon answers at the latest when
\* the model's bound on the attempts is reached.
InitLive ==
    /\ InitConn
    /\ config_ok = TRUE

DaemonAnswers ==
    IF attempts < MaxAttempts THEN {"offline", "ok"} ELSE {"ok"}

\* The steps of the running generator: the handle is created without an
\* exception, Getinfo is answered, the consumer resumes, the sleep ends.
initialize_step ==
    \/ initialize_first
    \/ initialize_resume126
    \/ (initialize_loop /\ outcomes' = outcomes)
    \/ \E o \in DaemonAnswers : initialize_getinfo(o)
    \/ initialize_resume165
    \/ initialize_resume171
    \/ initialize_discard
    \/ initialize_wake

NextLive ==
    \/ initialize_call
    \/ initialize_step
    \/ get_ln_info

SpecLive == InitLive /\ [][NextLive]_vars /\ WF_vars(initialize_step)

\* ------------------------------------------------------------------------
\* The listing operations (Query/Listing Engine), on a facade that is READY.

\* Backend records of the three sources together.
MaxRecords == 2
\* index_offset and the limit range over 0 .. MaxPage.
MaxPage == 1

Times == 1 .. MaxRecords
\* ListinvoicesInvoices.status: 0 unpaid, 1 paid, 2 expired.
InvoiceRecs == [time_stamp : Times, status : {0, 1, 2}]
OnchainRecs == [time_stamp : Times, num_confirmations : {0, 1}]
\* ListpaysPays.status: 0 pending, 1 failed, 2 complete; bolt11 is empty for
\* a keysend payment.
PayRecs == [time_stamp : Times, status : {0, 1, 2}, bolt11 : {"", "lnbc1"}]

\* The state of a READY facade whose first connection attempt succeeded.
ConnReady ==
    /\ _initialized = TRUE
    /\ _channel = 1
    /\ _cln_stub = 1
    /\ cln_stub = "absent"
    /\ creds = "set"
    /\ config_ok = TRUE
    /\ handles = 1
    /\ closed = {}
    /\ init_pc = "ended"
    /\ calls = 1
    /\ attempts = 1
    /\ events = <<Ev("create", 1), Ev("Getinfo", 1), Ev("yield_DONE", 0)>>
    /\ outcomes = <<"ok">>
    /\ ready_at_call = FALSE
    /\ snap = <<FALSE, NoHandle, NoHandle, "absent", "unset", 0, {}>>
    /\ OpIdle

\* The paid invoices numbered in list order.
PayIndexInOrder(invs) ==
    [i \in 1 .. Len(invs) |->
        IF invs[i].status = 1
        THEN Cardinality({j \in 1 .. i : invs[j].status = 1}) ELSE 0]

InitList ==
    /\ ConnReady
    /\ SubIdle
    /\ \E a \in 0 .. MaxRecords : \E b \in 0 .. MaxRecords - a :
       \E c \in 0 .. MaxRecords - a - b :
          /\ invoices \in [1 .. a -> InvoiceRecs]
          /\ onchain \in [1 .. b -> OnchainRecs]
          /\ pays \in [1 .. c -> PayRecs]
    /\ pay_index = PayIndexInOrder(invoices)
    /\ _memo_cache = {}
    /\ arg_flag \in BOOLEAN
    /\ arg_offset \in 0 .. MaxPage
    /\ arg_limit \in 0 .. MaxPage
    /\ list_result = NoList
    /\ tx_fwd = NoFwd

\* A timeline entry.  ref is the position of the record in its source list.
GenericTx(category, ref, time_stamp, status) ==
    [category |-> category, ref |-> ref, time_stamp |-> time_stamp,
     status |-> status, index |-> 0]

\* GenericTx.from_cln_grpc_invoice, from_onchain_tx, from_cln_grpc_payment.
FromClnGrpcInvoice(i) ==
    GenericTx("invoice", i, invoices[i].time_stamp,
              CASE invoices[i].status = 1 -> "SUCCEEDED"
                [] invoices[i].status = 0 -> "IN_FLIGHT"
                [] OTHER -> "FAILED")

FromOnchainTx(i) ==
    GenericTx("onchain", i, onchain[i].time_stamp,
              IF onchain[i].num_confirmations > 0
              THEN "SUCCEEDED" ELSE "IN_FLIGHT")

FromClnGrpcPayment(i) ==
    GenericTx("payment", i, pays[i].time_stamp,
              CASE pays[i].status = 2 -> "SUCCEEDED"
                [] pays[i].status = 0 -> "IN_FLIGHT"
                [] OTHER -> "FAILED")

\* Lines 278-281 (285-289, 305-309): the entry is appended in the branch of
\* the test and after it alike.
AppendTx(tx, e, successful_only) ==
    IF successful_only /\ e.status = "SUCCEEDED"
    THEN Append(tx, e)
    ELSE Append(tx, e)

RECURSIVE InvoiceLoop(_, _, _)
InvoiceLoop(n, tx, successful_only) ==
    IF n = 0 THEN tx
    ELSE AppendTx(InvoiceLoop(n - 1, tx, successful_only),
                  FromClnGrpcInvoice(n), successful_only)

RECURSIVE OnchainLoop(_, _, _)
OnchainLoop(n, tx, successful_only) ==
    IF n = 0 THEN tx
    ELSE AppendTx(OnchainLoop(n - 1, tx, successful_only),
                  FromOnchainTx(n), successful_only)

\* Lines 291-309, the loop over the payments from payment i on.  decode_ok
\* tells whether decode_pay_request succeeds.  The loop ends "ok" with the
\* entries, "http" when a decode raises its HTTPException, "None" when line 301
\* reads the description of an undecoded (keysend) payment.
RECURSIVE PayLoop(_, _, _, _, _)
PayLoop(i, tx, cache, successful_only, decode_ok) ==
    IF i > Len(pays) THEN [kind |-> "ok", tx |-> tx, cache |-> cache]
    ELSE IF pays[i].bolt11 = ""
    THEN [kind |-> "None", tx |-> tx, cache |-> cache]
    ELSE IF pays[i].bolt11 \notin cache /\ ~decode_ok
    THEN [kind |-> "http", tx |-> tx, cache |-> cache]
    ELSE PayLoop(i + 1, AppendTx(tx, FromClnGrpcPayment(i), successful_only),
                 cache \cup {pays[i].bolt11}, successful_only, decode_ok)

\* list.sort(key=sortKey): a stable sort, ascending by time_stamp.
RECURSIVE InsertByTime(_, _)
InsertByTime(e, s) ==
    IF s = <<>> THEN <<e>>
    ELSE IF s[Len(s)].time_stamp <= e.time_stamp THEN Append(s, e)
    ELSE Append(InsertByTime(e, SubSeq(s, 1, Len(s) - 1)), s[Len(s)])

\* SortByTime that leaves the list as it is.
Unsorted(s) == s

RECURSIVE SortPrefix(_, _)
SortPrefix(s, n) ==
    IF n = 0 THEN <<>> ELSE InsertByTime(s[n], SortPrefix(s, n - 1))

SortByTime(s) == SortPrefix(s, Len(s))

Reverse(s) == [i \in 1 .. Len(s) |-> s[Len(s) + 1 - i]]

\* Lines 319-321: index is the 0-based position.
AssignIndex(s) == [i \in 1 .. Len(s) |-> [s[i] EXCEPT !.index = i - 1]]

\* Lines 311-321: the final order of list_all_tx.
FinalOrder(tx, reversed) ==
    AssignIndex(IF reversed THEN Reverse(SortByTime(tx)) ELSE SortByTime(tx))

\* The Python slice s[a : a + b] for a >= 0 and b >= 0.
Slice(s, a, b) ==
    SubSeq(s, a + 1, IF a + b < Len(s) THEN a + b ELSE Len(s))

\* Lines 323-326.
PageAllTx(tx, index_offset, max_tx) ==
    Slice(tx, index_offset, IF max_tx = 0 THEN Len(tx) ELSE max_tx)

\* Lines 355-358 and 472-475.
PageList(tx, index_offset, limit) ==
    IF limit = 0 THEN tx ELSE Slice(tx, index_offset, limit)

\* What the four fetches of the gather of line 267 can give: all answer, an
\* RPC fails with an AioRpcError, or lightning-cli fails (HTTPException of
\* _make_local_call).
FetchOutcomes == {"ok", "rpc_error", "local_error"}

\* generic_grpc_error_handler raises an HTTPException.
GenericGrpcErrorHandler == HTTP_500

ListResult(op, reversed, kind, code, items) ==
    [op |-> op, reversed |-> reversed, kind |-> kind, code |-> code,
     items |-> items]

\* list_all_tx(successful_only, index_offset, max_tx, reversed).
list_all_tx(reversed, fetch, decode_ok) ==
    /\ init_pc \in Suspended
    /\ _cln_stub # NoHandle
    /\ IF fetch = "rpc_error"
       THEN /\ list_result' = ListResult("list_all_tx", reversed, "http",
                                         GenericGrpcErrorHandler, <<>>)
            /\ UNCHANGED <<_memo_cache, tx_fwd>>
       ELSE IF fetch = "local_error"
       THEN /\ list_result' = ListResult("list_all_tx", reversed, "http",
                                         HTTP_500, <<>>)
            /\ UNCHANGED <<_memo_cache, tx_fwd>>
       ELSE LET merged == OnchainLoop(Len(onchain),
                              InvoiceLoop(Len(invoices), <<>>, arg_flag),
                              arg_flag)
                loop == PayLoop(1, merged, _memo_cache, arg_flag, decode_ok)
                page == PageAllTx(FinalOrder(loop.tx, reversed), arg_offset,
                                  arg_limit)
            IN  /\ _memo_cache' = loop.cache
                /\ IF loop.kind = "ok"
                   THEN /\ list_result' = ListResult("list_all_tx", reversed,
                                                     "entity", 0, page)
                        /\ tx_fwd' = IF reversed THEN tx_fwd
                                     ELSE [set |-> TRUE, items |-> page]
                   ELSE /\ list_result' = ListResult("list_all_tx", reversed,
                                  loop.kind,
                                  IF loop.kind = "http" THEN HTTP_500 ELSE 0,
                                  <<>>)
                        /\ tx_fwd' = tx_fwd
    /\ UNCHANGED <<invoices, pay_index, onchain, pays, arg_flag, arg_offset,
                   arg_limit>>
    /\ UNCHANGED <<conn_vars, op_vars, sub_vars>>

\* Invoice.from_cln_grpc: state from the status, settle_index from pay_index.
InvoiceEntity(i) ==
    [category |-> "invoice", ref |-> i, time_stamp |-> invoices[i].time_stamp,
     state |-> CASE invoices[i].status = 0 -> "OPEN"
                 [] invoices[i].status = 1 -> "SETTLED"
                 [] OTHER -> "CANCELED",
     settle_index |-> pay_index[i]]

\* Payment.from_cln_grpc keeps the record.

PaymentEntity(i) ==
    [category |-> "payment", ref |-> i, time_stamp |-> pays[i].time_stamp,
     status |-> pays[i].status]

\* Lines 344-350.
RECURSIVE InvoiceFilter(_, _)
InvoiceFilter(n, pending_only) ==
    IF n = 0 THEN <<>>
    ELSE IF pending_only
    THEN IF invoices[n].status = 0
         THEN Append(InvoiceFilter(n - 1, pending_only), InvoiceEntity(n))
         ELSE InvoiceFilter(n - 1, pending_only)
    ELSE Append(InvoiceFilter(n - 1, pending_only), InvoiceEntity(n))

\* Lines 459-467.
RECURSIVE PaymentFilter(_, _)
PaymentFilter(n, include_incomplete) ==
    IF n = 0 THEN <<>>
    ELSE IF pays[n].status = 2
    THEN Append(PaymentFilter(n - 1, include_incomplete), PaymentEntity(n))
    ELSE IF include_incomplete
    THEN Append(PaymentFilter(n - 1, include_incomplete), PaymentEntity(n))
    ELSE PaymentFilter(n - 1, include_incomplete)

\* Lines 344-353: the final order of list_invoices.
InvoicesOrder(pending_only, reversed) ==
    IF reversed THEN Reverse(InvoiceFilter(Len(invoices), pending_only))
    ELSE InvoiceFilter(Len(invoices), pending_only)

\* Lines 459-470: the final order of list_payments.
PaymentsOrder(include_incomplete, reversed) ==
    IF reversed THEN Reverse(PaymentFilter(Len(pays), include_incomplete))
    ELSE PaymentFilter(Len(pays), include_incomplete)

\* list_invoices(pending_only, index_offset, num_max_invoices, reversed).
list_invoices(reversed, rpc_ok) ==
    /\ init_pc \in Suspended
    /\ _cln_stub # NoHandle
    /\ list_result' =
         IF rpc_ok
         THEN ListResult("list_invoices", reversed, "entity", 0,
                         PageList(InvoicesOrder(arg_flag, reversed),
                                  arg_offset, arg_limit))
         ELSE ListResult("list_invoices", reversed, "http",
                         GenericGrpcErrorHandler, <<>>)
    /\ UNCHANGED <<invoices, pay_index, onchain, pays, _memo_cache, arg_flag,
                   arg_offset, arg_limit, tx_fwd>>
    /\ UNCHANGED <<conn_vars, op_vars, sub_vars>>

\* list_payments(include_incomplete, index_offset, max_payments, reversed).
list_payments(reversed, rpc_ok) ==
    /\ init_pc \in Suspended
    /\ _cln_stub # NoHandle
    /\ list_result' =
         IF rpc_ok
         THEN ListResult("list_payments", reversed, "entity", 0,
                         PageList(PaymentsOrder(arg_flag, reversed),
                                  arg_offset, arg_limit))
         ELSE ListResult("list_payments", reversed, "http",
                         GenericGrpcErrorHandler, <<>>)
    /\ UNCHANGED <<invoices, pay_index, onchain, pays, _memo_cache, arg_flag,
                   arg_offset, arg_limit, tx_fwd>>
    /\ UNCHANGED <<conn_vars, op_vars, sub_vars>>

NextList ==
    \/ \E r \in BOOLEAN, f \in FetchOutcomes, d \in BOOLEAN :
          list_all_tx(r, f, d)
    \/ \E r \in BOOLEAN, k \in BOOLEAN : list_invoices(r, k)
    \/ \E r \in BOOLEAN, k \in BOOLEAN : list_payments(r, k)

SpecList == InitList /\ [][NextList]_vars

\* list_all_tx without pagination, called again and again on the same records.
InitRound ==
    /\ InitList
    /\ arg_offset = 0
    /\ arg_limit = 0

NextRound ==
    \E r \in BOOLEAN, f \in FetchOutcomes, d \in BOOLEAN : list_all_tx(r, f, d)

SpecRound == InitRound /\ [][NextRound]_vars

\* ------------------------------------------------------------------------
\* The operations with an error classification, on a facade that is READY.
\* One call is made at a time; the caller takes its result before the next.

HTTP_400 == 400
HTTP_412 == 412
HTTP_504 == 504

\* The answer of an RPC.  The error detail of an AioRpcError is the set of
\* the operation's patterns that occur in it: the empty set is a detail that
\* matches none of them.
Ok(value) == [ok |-> TRUE, details |-> {}, value |-> value]
Failed(details) == [ok |-> FALSE, details |-> details, value |-> 0]

\* The caller has taken the result of its previous call.
NoCall == op_result = NoResult

\* A call ends: its result, what it did, what it handed to the sink.
OpEnds(result, trace, msgs) ==
    /\ op_result' = result
    /\ op_trace' = trace
    /\ sse' = sse \o msgs
    /\ UNCHANGED <<task_vars, conn_vars, list_vars, sub_vars>>

Entity(op, rpc) == Result(op, _initialized, rpc, "entity", 0, 0)
Http(op, rpc, code) == Result(op, _initialized, rpc, "http", code, 0)

\* get_fee_revenue (lines 563-576): an AioRpcError becomes a 500 with the
\* detail; no logger call.
get_fee_revenue(a) ==
    /\ _cln_stub # NoHandle
    /\ IF a.ok
       THEN OpEnds(Entity("get_fee_revenue", "ListForwards"),
                   <<Rpc("ListForwards", 0), Answer("ListForwards", a),
                     Return("FeeRevenue", 0)>>, <<>>)
       ELSE OpEnds(Http("get_fee_revenue", "ListForwards", HTTP_500),
                   <<Rpc("ListForwards", 0), Answer("ListForwards", a),
                     Raise(HTTP_500)>>, <<>>)

\* new_address (lines 578-590): the same shape.
new_address(a) ==
    /\ _cln_stub # NoHandle
    /\ IF a.ok
       THEN OpEnds(Entity("new_address", "NewAddr"),
                   <<Rpc("NewAddr", 0), Answer("NewAddr", a),
                     Return("bech32", 0)>>, <<>>)
       ELSE OpEnds(Http("new_address", "NewAddr", HTTP_500),
                   <<Rpc("NewAddr", 0), Answer("NewAddr", a),
                     Raise(HTTP_500)>>, <<>>)

\* channel_list (lines 981-1001): a failing ListFunds becomes a 500 with the
\* detail, no logger call; the aliases are gathered with
\* return_exceptions=True, so a failing alias lookup does not end the call.
channel_list(a) ==
    /\ _cln_stub # NoHandle
    /\ IF a.ok
       THEN OpEnds(Entity("channel_list", "ListFunds"),
                   <<Rpc("ListFunds", 0), Answer("ListFunds", a),
                     Return("channels", 0)>>, <<>>)
       ELSE OpEnds(Http("channel_list", "ListFunds", HTTP_500),
                   <<Rpc("ListFunds", 0), Answer("ListFunds", a),
                     Raise(HTTP_500)>>, <<>>)

ChannelClosePatterns == {"Channel is in state AWAITING_UNILATERAL"}
\* res.item_type of a Close answer: 0 mutual, 1 unilateral, 2 unopened.
CloseTypes == 0 .. 3

\* channel_close (lines 1003-1042): no logger call in the except clause.
channel_close(a) ==
    /\ _cln_stub # NoHandle
    /\ LET asked == <<Rpc("Close", 0), Answer("Close", a)>>
       IN  IF a.ok
           THEN IF a.value \in {0, 1}
                THEN OpEnds(Entity("channel_close", "Close"),
                            asked \o <<Return("txid", 0)>>, <<>>)
                ELSE OpEnds(Http("channel_close", "Close", HTTP_400),
                            asked \o <<Raise(HTTP_400)>>, <<>>)
           ELSE IF "Channel is in state AWAITING_UNILATERAL" \in a.details
           THEN OpEnds(Http("channel_close", "Close", HTTP_400),
                       asked \o <<Raise(HTTP_400)>>, <<>>)
           ELSE OpEnds(Http("channel_close", "Close", HTTP_500),
                       asked \o <<Raise(HTTP_500)>>, <<>>)

\* peer_resolve_alias (lines 882-900): the detail is logged with logger.error;
\* NodeNotFoundError leaves the coroutine (it is excluded from the decorator)
\* when the answer has no node.  a.value is the number of nodes.
peer_resolve_alias(a) ==
    /\ _cln_stub # NoHandle
    /\ LET asked == <<Rpc("ListNodes", 0), Answer("ListNodes", a)>>
       IN  IF a.ok
           THEN IF a.value = 0
                THEN OpEnds(Result("peer_resolve_alias", _initialized,
                                   "ListNodes", "NodeNotFoundError", 0, 0),
                            asked, <<>>)
                ELSE OpEnds(Entity("peer_resolve_alias", "ListNodes"),
                            asked \o <<Return("alias", 0)>>, <<>>)
           ELSE OpEnds(Http("peer_resolve_alias", "ListNodes", HTTP_500),
                       asked \o <<Log("error", a.details), Raise(HTTP_500)>>,
                       <<>>)

ConnectPeerPatterns ==
    {"All addresses failed", "message: \"", "no address known for peer",
     "Connection timed out", "Connection refused"}

\* connect_peer (lines 837-880) from the answer of ConnectPeer on: how it
\* ends and what it did.  The tests run in the order of the source; line 851
\* raises IndexError when the detail has no 'message: "'.
ConnectPeerRun(a) ==
    LET asked == <<Rpc("ConnectPeer", 0), Answer("ConnectPeer", a)>>
        warned == asked \o <<Log("warning", a.details)>>
    IN  IF a.ok
        THEN [kind |-> "entity", code |-> 0,
              trace |-> asked \o <<Return("bool", 0)>>]
        ELSE IF "All addresses failed" \in a.details
        THEN IF "message: \"" \in a.details
             THEN [kind |-> "http", code |-> HTTP_400,
                   trace |-> warned \o <<Raise(HTTP_400)>>]
             ELSE [kind |-> "None", code |-> 0,
                   trace |-> warned \o <<Caught("IndexError")>>]
        ELSE IF "no address known for peer" \in a.details
        THEN [kind |-> "http", code |-> HTTP_400,
              trace |-> warned \o <<Raise(HTTP_400)>>]
        ELSE IF "Connection timed out" \in a.details
        THEN [kind |-> "http", code |-> HTTP_504,
              trace |-> warned \o <<Raise(HTTP_504)>>]
        ELSE IF "Connection refused" \in a.details
        THEN [kind |-> "http", code |-> HTTP_504,
              trace |-> warned \o <<Raise(HTTP_504)>>]
        ELSE [kind |-> "http", code |-> HTTP_500,
              trace |-> warned \o <<Log("exception", a.details),
                                    Raise(HTTP_500)>>]

connect_peer(a) ==
    /\ _cln_stub # NoHandle
    /\ LET run == ConnectPeerRun(a)
       IN  OpEnds(Result("connect_peer", _initialized, "ConnectPeer",
                         run.kind, run.code, 0),
                  run.trace, <<>>)

\* Python None for an optional integer argument.
NoneArg == -1
\* target_conf / target_confs range over 0 .. MaxTargetConf.
MaxTargetConf == 10

\* FeerateSendCoins with the tests for slow and normal in the other order.
FeerateSendCoinsSlowFirst(sat_per_vbyte, target_conf) ==
    IF sat_per_vbyte # NoneArg /\ sat_per_vbyte > 0 THEN "perkw"
    ELSE IF target_conf # NoneArg /\ target_conf = 1 THEN "urgent"
    ELSE IF target_conf # NoneArg /\ target_conf >= 10 THEN "slow"
    ELSE IF target_conf # NoneArg /\ target_conf >= 2 THEN "normal"
    ELSE "None"

\* Lines 600-608: the fee rate of send_coins.
FeerateSendCoins(sat_per_vbyte, target_conf) ==
    IF sat_per_vbyte # NoneArg /\ sat_per_vbyte > 0 THEN "perkw"
    ELSE IF target_conf # NoneArg /\ target_conf = 1 THEN "urgent"
    ELSE IF target_conf # NoneArg /\ target_conf >= 2 THEN "normal"
    ELSE IF target_conf # NoneArg /\ target_conf >= 10 THEN "slow"
    ELSE "None"

\* Lines 915-921: the fee rate of channel_open.
FeerateChannelOpen(target_confs) ==
    IF target_confs = 1 THEN "urgent"
    ELSE IF target_confs >= 2 /\ target_confs <= 9 THEN "normal"
    ELSE IF target_confs >= 10 THEN "slow"
    ELSE "None"

\* Amounts in sat, and the number of outputs ListFunds returns.
MaxSat == 2
MaxOutputs == 2
\* send_coins calls that reach the sink in one run.
MaxSends == 2

SendCoinsInputs ==
    [sat_per_vbyte : {NoneArg, 1}, target_conf : {NoneArg} \cup 0 .. MaxTargetConf,
     send_all : BOOLEAN, amount : 1 .. MaxSat]

FundsOutputs == UNION {[1 .. n -> 1 .. MaxSat] : n \in 0 .. MaxOutputs}

RECURSIVE SumOutputs(_, _)
SumOutputs(outputs, n) ==
    IF n = 0 THEN 0 ELSE outputs[n] + SumOutputs(outputs, n - 1)

\* FundsCheck that lets every request pass.
FundsCheckOff(input, outputs) == "ok"

\* Lines 612-635: the check of the funds before the Withdraw.
FundsCheck(input, outputs) ==
    IF Len(outputs) = 0 THEN "no_utxos"
    ELSE IF ~input.send_all /\ SumOutputs(outputs, Len(outputs)) <= input.amount
    THEN "not_enough"
    ELSE "ok"

SendCoinsPatterns ==
    {"Could not parse destination address", "UTXO", "already reserved",
     "insufficient funds available"}

\* Lines 656-679: the status of the HTTPException for an AioRpcError of
\* ListFunds or Withdraw.
SendCoinsError(details) ==
    IF "Could not parse destination address" \in details THEN HTTP_400
    ELSE IF "UTXO" \in details /\ "already reserved" \in details THEN HTTP_500
    ELSE IF "insufficient funds available" \in details THEN HTTP_412
    ELSE GenericGrpcErrorHandler

\* send_coins (lines 596-679).  funds answers ListFunds, w answers Withdraw.
send_coins(input, funds, w) ==
    /\ _cln_stub # NoHandle
    /\ Len(sse) < MaxSends
    /\ LET fee_rate == FeerateSendCoins(input.sat_per_vbyte, input.target_conf)
           asked == <<Call("send_coins", input), Rpc("ListFunds", 0),
                      Answer("ListFunds", funds)>>
           req == [feerate |-> fee_rate, all |-> input.send_all,
                   utxos |-> Len(funds.value)]
           withdrawn == asked \o <<Rpc("Withdraw", req), Answer("Withdraw", w)>>
       IN  IF ~funds.ok
           THEN OpEnds(Http("send_coins", "ListFunds",
                            SendCoinsError(funds.details)),
                       asked \o <<Log("debug", funds.details),
                                  Raise(SendCoinsError(funds.details))>>,
                       <<>>)
           ELSE IF FundsCheck(input, funds.value) # "ok"
           THEN OpEnds(Http("send_coins", "ListFunds", HTTP_412),
                       asked \o <<Raise(HTTP_412)>>, <<>>)
           ELSE IF ~w.ok
           THEN OpEnds(Http("send_coins", "Withdraw",
                            SendCoinsError(w.details)),
                       withdrawn \o <<Log("debug", w.details),
                                      Raise(SendCoinsError(w.details))>>,
                       <<>>)
           ELSE OpEnds(Entity("send_coins", "Withdraw"),
                       withdrawn \o <<Broadcast("LN_ONCHAIN_PAYMENT_STATUS"),
                                      Return("SendCoinsResponse", input.amount)>>,
                       <<[id |-> "LN_ONCHAIN_PAYMENT_STATUS",
                          amount |-> input.amount]>>)

ChannelOpenPatterns ==
    {"amount: should be a satoshi amount", "Unknown peer",
     "Owning subdaemon openingd died",
     "Number of pending channels exceed maximum",
     "BTC is below min chan size of"}

\* Lines 942-979: the status for an AioRpcError of FundChannel.
ChannelOpenError(details) ==
    IF "amount: should be a satoshi amount" \in details THEN HTTP_400
    ELSE IF "Unknown peer" \in details THEN HTTP_500
    ELSE IF "Owning subdaemon openingd died" \in details THEN HTTP_400
    ELSE IF \/ "Number of pending channels exceed maximum" \in details
            \/ "BTC is below min chan size of" \in details
    THEN HTTP_400
    ELSE HTTP_500

\* channel_open (lines 902-979).  ca answers the ConnectPeer of line 913, fa
\* the FundChannel of line 935.  An HTTPException of connect_peer leaves
\* channel_open too; its None is not looked at.
channel_open(target_confs, ca, fa) ==
    /\ _cln_stub # NoHandle
    /\ LET connect == ConnectPeerRun(ca)
           fee_rate == FeerateChannelOpen(target_confs)
           called == <<Call("channel_open", [target_confs |-> target_confs])>>
                       \o connect.trace
           funded == called \o <<Rpc("FundChannel", [feerate |-> fee_rate]),
                                 Answer("FundChannel", fa)>>
       IN  IF connect.kind = "http"
           THEN OpEnds(Http("channel_open", "ConnectPeer", connect.code),
                       called, <<>>)
           ELSE IF fa.ok
           THEN OpEnds(Entity("channel_open", "FundChannel"),
                       funded \o <<Return("txid", 0)>>, <<>>)
           ELSE OpEnds(Http("channel_open", "FundChannel",
                            ChannelOpenError(fa.details)),
                       funded \o <<Log("debug", fa.details)>>
                         \o (IF \E p \in ChannelOpenPatterns : p \in fa.details
                             THEN <<>>
                             ELSE <<Log("warning", fa.details)>>)
                         \o <<Raise(ChannelOpenError(fa.details))>>,
                       <<>>)

\* The caller has the result of its call.
caller_takes_result ==
    /\ op_result # NoResult
    /\ op_result' = NoResult
    /\ op_trace' = <<>>
    /\ UNCHANGED <<sse, task_vars, conn_vars, list_vars, sub_vars>>

Answers(patterns) == {Ok(0)} \cup {Failed(d) : d \in SUBSET patterns}

\* The answers of the ListFunds of send_coins: value is funds.outputs.
FundsAnswers ==
    {Ok(o) : o \in FundsOutputs}
      \cup {[ok |-> FALSE, details |-> d, value |-> <<>>] :
               d \in SUBSET SendCoinsPatterns}

InitOps ==
    /\ ConnReady
    /\ ListIdle
    /\ SubIdle

NextOps ==
    \/ NoCall /\ \E a \in Answers({}) : get_fee_revenue(a)
    \/ NoCall /\ \E a \in Answers({}) : new_address(a)
    \/ NoCall /\ \E a \in Answers({}) : channel_list(a)
    \/ NoCall /\ \E a \in {Ok(t) : t \in CloseTypes}
                            \cup {Failed(d) : d \in SUBSET ChannelClosePatterns} :
                    channel_close(a)
    \/ NoCall /\ \E a \in {Ok(0), Ok(1), Failed({})} : peer_resolve_alias(a)
    \/ NoCall /\ \E a \in Answers(ConnectPeerPatterns) : connect_peer(a)
    \/ NoCall /\ \E input \in SendCoinsInputs, funds \in FundsAnswers,
                     w \in Answers(SendCoinsPatterns) :
                    send_coins(input, funds, w)
    \/ NoCall /\ \E tc \in 0 .. MaxTargetConf,
                     ca \in Answers(ConnectPeerPatterns),
                     fa \in Answers(ChannelOpenPatterns) :
                    channel_open(tc, ca, fa)
    \/ caller_takes_result

SpecOps == InitOps /\ [][NextOps]_vars

\* ------------------------------------------------------------------------
\* list_all_tx as the scheduler runs it: the call is suspended at the gather
\* of line 267 and at every decode_pay_request of line 298, and other calls
\* run while it is.

\* list_all_tx calls in one run.
MaxListCalls == 3

\* Payments of the backend: settled, with no bolt11 (keysend) or one of two.
TaskPayRecs == [time_stamp : {1}, status : {2}, bolt11 : {"", "lnbc1", "lnbc2"}]

InitTasks ==
    /\ ConnReady
    /\ SubIdle
    /\ invoices = <<>>
    /\ pay_index = <<>>
    /\ onchain = <<>>
    /\ \E n \in 0 .. MaxRecords : pays \in [1 .. n -> TaskPayRecs]
    /\ _memo_cache = {}
    /\ arg_flag = FALSE
    /\ arg_offset = 0
    /\ arg_limit = 0
    /\ list_result = NoList
    /\ tx_fwd = NoFwd

\* PayScan that never looks into the cache.
RECURSIVE PayScanNoCache(_, _)
PayScanNoCache(i, cache) ==
    IF i > Len(pays) THEN [pc |-> "ended", pos |-> 0, kind |-> "entity"]
    ELSE IF pays[i].bolt11 = ""
    THEN [pc |-> "ended", pos |-> 0, kind |-> "None"]
    ELSE [pc |-> "decode", pos |-> i, kind |-> "none"]

\* Lines 291-326 from payment i on, up to the next suspension: a cached
\* string is used at once (lines 295-296), an uncached one is decoded (line
\* 298), a payment without bolt11 makes line 302 raise AttributeError, and
\* after the last payment the call returns its list.
RECURSIVE PayScan(_, _)
PayScan(i, cache) ==
    IF i > Len(pays) THEN [pc |-> "ended", pos |-> 0, kind |-> "entity"]
    ELSE IF pays[i].bolt11 = ""
    THEN [pc |-> "ended", pos |-> 0, kind |-> "None"]
    ELSE IF pays[i].bolt11 \in cache THEN PayScan(i + 1, cache)
    ELSE [pc |-> "decode", pos |-> i, kind |-> "none"]

\* The decode_pay_request call that a task reaching scan issues, if any.
Issued(t, scan) ==
    IF scan.pc = "decode"
    THEN <<[key |-> pays[scan.pos].bolt11, task |-> t, res |-> "pending"]>>
    ELSE <<>>

\* Lines 253-267: the call runs up to the gather.
list_all_tx_call(t) ==
    /\ t_pc[t] \in {"idle", "ended"}
    /\ t_calls < MaxListCalls
    /\ t_calls' = t_calls + 1
    /\ t_pc' = [t_pc EXCEPT ![t] = "gather"]
    /\ t_kind' = [t_kind EXCEPT ![t] = "none"]
    /\ UNCHANGED <<t_pos, decodes, writes, op_result, op_trace, sse>>
    /\ UNCHANGED <<conn_vars, list_vars, sub_vars>>

\* Lines 267-298: the gather answers, the loops run up to the first decode.
list_all_tx_gathered(t, fetch) ==
    /\ t_pc[t] = "gather"
    /\ LET scan == IF fetch = "ok" THEN PayScan(1, _memo_cache)
                   ELSE [pc |-> "ended", pos |-> 0, kind |-> "http"]
       IN  /\ t_pc' = [t_pc EXCEPT ![t] = scan.pc]
           /\ t_pos' = [t_pos EXCEPT ![t] = scan.pos]
           /\ t_kind' = [t_kind EXCEPT ![t] = scan.kind]
           /\ decodes' = decodes \o Issued(t, scan)
    /\ UNCHANGED <<t_calls, writes, op_result, op_trace, sse>>
    /\ UNCHANGED <<conn_vars, list_vars, sub_vars>>

\* The decode a task awaits.
Pending(t) ==
    CHOOSE k \in 1 .. Len(decodes) :
        decodes[k].task = t /\ decodes[k].res = "pending"

\* Lines 298-326: decode_pay_request answers.  Its result is written into
\* the cache (line 299) and the loop goes on; its HTTPException ends the call.
list_all_tx_decoded(t, ok) ==
    /\ t_pc[t] = "decode"
    /\ LET key == pays[t_pos[t]].bolt11
           cache == IF ok THEN _memo_cache \cup {key} ELSE _memo_cache
           scan == IF ok THEN PayScan(t_pos[t] + 1, cache)
                   ELSE [pc |-> "ended", pos |-> 0, kind |-> "http"]
           answered == [decodes EXCEPT ![Pending(t)].res =
                                          IF ok THEN "ok" ELSE "http"]
       IN  /\ _memo_cache' = cache
           /\ writes' = IF ok THEN Append(writes, key) ELSE writes
           /\ t_pc' = [t_pc EXCEPT ![t] = scan.pc]
           /\ t_pos' = [t_pos EXCEPT ![t] = scan.pos]
           /\ t_kind' = [t_kind EXCEPT ![t] = scan.kind]
           /\ decodes' = answered \o Issued(t, scan)
    /\ UNCHANGED <<t_calls, op_result, op_trace, sse>>
    /\ UNCHANGED <<invoices, pay_index, onchain, pays, arg_flag, arg_offset,
                   arg_limit, list_result, tx_fwd>>
    /\ UNCHANGED <<conn_vars, sub_vars>>

\* No list_all_tx call is running.
NoneRunning == \A t \in Tasks : t_pc[t] \in {"idle", "ended"}

\* Calls run one after another.
NextSeq ==
    \/ \E t \in Tasks : NoneRunning /\ list_all_tx_call(t)
    \/ \E t \in Tasks, f \in FetchOutcomes : list_all_tx_gathered(t, f)
    \/ \E t \in Tasks, ok \in BOOLEAN : list_all_tx_decoded(t, ok)

SpecSeq == InitTasks /\ [][NextSeq]_vars

\* Calls run concurrently.
NextTasks ==
    \/ \E t \in Tasks : list_all_tx_call(t)
    \/ \E t \in Tasks, f \in FetchOutcomes : list_all_tx_gathered(t, f)
    \/ \E t \in Tasks, ok \in BOOLEAN : list_all_tx_decoded(t, ok)

SpecTasks == InitTasks /\ [][NextTasks]_vars

\* ------------------------------------------------------------------------
\* The subscriptions (Subscription Engine), on a facade that is READY.

\* Invoices the backend holds while listen_invoices runs.
MaxSubInvoices == 3
\* Settled forwards the backend can hold.
MaxForwards == 4

\* num_max_invoices of the initial scan: 9999999999999 in the source, here the
\* largest integer TLC represents; Python integers do not overflow and both
\* exceed every number of invoices.
ScanLimit == 2147483647

InitSub ==
    /\ ConnReady
    /\ SubIdle
    /\ invoices = [i \in 1 .. MaxSubInvoices |-> [time_stamp |-> 1, status |-> 0]]
    /\ pay_index = [i \in 1 .. MaxSubInvoices |-> 0]
    /\ onchain = <<>>
    /\ pays = <<>>
    /\ _memo_cache = {}
    /\ arg_flag = FALSE
    /\ arg_offset = 0
    /\ arg_limit = 0
    /\ list_result = NoList
    /\ tx_fwd = NoFwd

PaidCount == Cardinality({i \in 1 .. Len(invoices) : invoices[i].status = 1})

\* The backend settles an unpaid invoice: it gets the next pay_index.
backend_settle(i) ==
    /\ invoices[i].status = 0
    /\ invoices' = [invoices EXCEPT ![i].status = 1]
    /\ pay_index' = [pay_index EXCEPT ![i] = PaidCount + 1]
    /\ UNCHANGED <<onchain, pays, _memo_cache, arg_flag, arg_offset, arg_limit,
                   list_result, tx_fwd>>
    /\ UNCHANGED <<conn_vars, op_vars, sub_vars>>

\* The backend settles a forward: the list of settled forwards grows at its
\* end.
backend_forward ==
    /\ Len(forwards) < MaxForwards
    /\ forwards' = Append(forwards, [id |-> Len(forwards) + 1])
    /\ UNCHANGED <<li_pc, lastpay_index, li_waits, li_yielded, li_scan_high,
                   fw_pc, num_fwd_last_poll, fw_res, fw_i, fw_yielded, fw_base,
                   fw_last_count>>
    /\ UNCHANGED <<conn_vars, op_vars, list_vars>>

li_unchanged == <<forwards, fw_pc, num_fwd_last_poll, fw_res, fw_i, fw_yielded,
                  fw_base, fw_last_count>>
fw_unchanged == <<li_pc, lastpay_index, li_waits, li_yielded, li_scan_high>>

\* Lines 778-786: up to the await of list_invoices.
listen_invoices_start ==
    /\ li_pc = "idle"
    /\ li_pc' = "scan"
    /\ UNCHANGED <<lastpay_index, li_waits, li_yielded, li_scan_high>>
    /\ UNCHANGED li_unchanged
    /\ UNCHANGED <<conn_vars, op_vars, list_vars>>

\* listen_invoices_scan that starts from index 0 whatever is settled.
ScanFromZero(items, n) == 0

\* Lines 788-790: the highest settle_index of the settled invoices among the
\* first n items, 0 when there is none.
RECURSIVE ScanHighest(_, _)
ScanHighest(items, n) ==
    IF n = 0 THEN 0
    ELSE LET h == ScanHighest(items, n - 1) IN
         IF items[n].state = "SETTLED" /\ items[n].settle_index > h
         THEN items[n].settle_index ELSE h

\* Lines 781-794: list_invoices answers, the baseline is computed and the
\* first WaitAnyInvoice is issued.  When ListInvoices fails, list_invoices
\* raises the HTTPException of generic_grpc_error_handler.
listen_invoices_scan(rpc_ok) ==
    /\ li_pc = "scan"
    /\ IF rpc_ok
       THEN LET items == PageList(InvoicesOrder(FALSE, FALSE), 0, ScanLimit)
                base == ScanHighest(items, Len(items))
            IN  /\ lastpay_index' = base
                /\ li_scan_high' = PaidCount
                /\ li_waits' = Append(li_waits, base)
                /\ li_pc' = "wait"
       ELSE /\ li_pc' = "failed"
            /\ UNCHANGED <<lastpay_index, li_scan_high, li_waits>>
    /\ UNCHANGED li_yielded
    /\ UNCHANGED li_unchanged
    /\ UNCHANGED <<conn_vars, op_vars, list_vars>>

\* What WaitAnyInvoice(lastpay_index) answers: the paid invoice with the
\* lowest pay_index above lastpay_index; it blocks while there is none.
WaitAnyInvoiceAnswers(last) ==
    {i \in 1 .. Len(invoices) :
        /\ pay_index[i] > last
        /\ \A j \in 1 .. Len(invoices) :
              pay_index[j] > last => pay_index[i] <= pay_index[j]}

\* Invoice.from_cln_grpc of a WaitAnyInvoice answer: settle_index is the
\* pay_index of the invoice.
WaitAnyInvoiceEntity(i) == [ref |-> i, settle_index |-> pay_index[i]]

\* Lines 794-797: WaitAnyInvoice answers, the invoice is yielded.  An
\* AioRpcError becomes an HTTPException (lines 798-810).
listen_invoices_event(rpc_ok) ==
    /\ li_pc = "wait"
    /\ IF rpc_ok
       THEN \E i \in WaitAnyInvoiceAnswers(lastpay_index) :
              /\ lastpay_index' = WaitAnyInvoiceEntity(i).settle_index
              /\ li_yielded' = Append(li_yielded, WaitAnyInvoiceEntity(i))
              /\ li_pc' = "yielded"
       ELSE /\ li_pc' = "failed"
            /\ UNCHANGED <<lastpay_index, li_yielded>>
    /\ UNCHANGED <<li_waits, li_scan_high>>
    /\ UNCHANGED li_unchanged
    /\ UNCHANGED <<conn_vars, op_vars, list_vars>>

\* The consumer asks for the next invoice: lines 792-794 issue the next wait.
listen_invoices_resume ==
    /\ li_pc = "yielded"
    /\ li_waits' = Append(li_waits, lastpay_index)
    /\ li_pc' = "wait"
    /\ UNCHANGED <<lastpay_index, li_yielded, li_scan_high>>
    /\ UNCHANGED li_unchanged
    /\ UNCHANGED <<conn_vars, op_vars, list_vars>>

\* Lines 814-825: up to the await of the first ListForwards.
listen_forward_events_start ==
    /\ fw_pc = "idle"
    /\ fw_pc' = "first"
    /\ UNCHANGED <<forwards, num_fwd_last_poll, fw_res, fw_i, fw_yielded,
                   fw_base, fw_last_count>>
    /\ UNCHANGED fw_unchanged
    /\ UNCHANGED <<conn_vars, op_vars, list_vars>>

\* Lines 825-828: the first answer sets the watermark, the first poll is
\* issued.  No except clause: an AioRpcError ends the generator.
listen_forward_events_first(rpc_ok) ==
    /\ fw_pc = "first"
    /\ IF rpc_ok
       THEN /\ num_fwd_last_poll' = Len(forwards)
            /\ fw_base' = Len(forwards)
            /\ fw_last_count' = Len(forwards)
            /\ fw_pc' = "poll"
       ELSE /\ fw_pc' = "failed"
            /\ UNCHANGED <<num_fwd_last_poll, fw_base, fw_last_count>>
    /\ UNCHANGED <<forwards, fw_res, fw_i, fw_yielded>>
    /\ UNCHANGED fw_unchanged
    /\ UNCHANGED <<conn_vars, op_vars, list_vars>>

\* NewForwards that starts one entry too early.
NewForwardsOffByOne(res, watermark) ==
    IF watermark = 0 THEN res ELSE SubSeq(res, watermark, Len(res))

\* Line 830: res.forwards[num_fwd_last_poll:].
NewForwards(res, watermark) == SubSeq(res, watermark + 1, Len(res))

\* Lines 828-835: a poll answers.  A longer list starts the loop of yields,
\* otherwise the generator sleeps.
listen_forward_events_poll(rpc_ok) ==
    /\ fw_pc = "poll"
    /\ IF rpc_ok
       THEN /\ fw_last_count' = Len(forwards)
            /\ fw_res' = forwards
            /\ IF Len(forwards) > num_fwd_last_poll
               THEN /\ fw_yielded' = Append(fw_yielded,
                          NewForwards(forwards, num_fwd_last_poll)[1])
                    /\ fw_i' = 1
                    /\ fw_pc' = "yield"
               ELSE /\ fw_pc' = "sleep"
                    /\ UNCHANGED <<fw_yielded, fw_i>>
       ELSE /\ fw_pc' = "failed"
            /\ UNCHANGED <<fw_last_count, fw_res, fw_yielded, fw_i>>
    /\ UNCHANGED <<forwards, num_fwd_last_poll, fw_base>>
    /\ UNCHANGED fw_unchanged
    /\ UNCHANGED <<conn_vars, op_vars, list_vars>>

\* Lines 831-835: the consumer asks for the next event: the next entry of the
\* suffix is yielded, or the watermark is set and the generator sleeps.
listen_forward_events_resume ==
    /\ fw_pc = "yield"
    /\ LET fwds == NewForwards(fw_res, num_fwd_last_poll) IN
       IF fw_i < Len(fwds)
       THEN /\ fw_yielded' = Append(fw_yielded, fwds[fw_i + 1])
            /\ fw_i' = fw_i + 1
            /\ UNCHANGED <<fw_pc, num_fwd_last_poll>>
       ELSE /\ num_fwd_last_poll' = Len(fw_res)
            /\ fw_i' = 0
            /\ fw_pc' = "sleep"
            /\ UNCHANGED fw_yielded
    /\ UNCHANGED <<forwards, fw_res, fw_base, fw_last_count>>
    /\ UNCHANGED fw_unchanged
    /\ UNCHANGED <<conn_vars, op_vars, list_vars>>

\* The sleep of line 835 is over: line 828 issues the next poll.
listen_forward_events_wake ==
    /\ fw_pc = "sleep"
    /\ fw_pc' = "poll"
    /\ UNCHANGED <<forwards, num_fwd_last_poll, fw_res, fw_i, fw_yielded,
                   fw_base, fw_last_count>>
    /\ UNCHANGED fw_unchanged
    /\ UNCHANGED <<conn_vars, op_vars, list_vars>>

NextSub ==
    \/ \E i \in 1 .. MaxSubInvoices : backend_settle(i)
    \/ backend_forward
    \/ listen_invoices_start
    \/ \E k \in BOOLEAN : listen_invoices_scan(k)
    \/ \E k \in BOOLEAN : listen_invoices_event(k)
    \/ listen_invoices_resume
    \/ listen_forward_events_start
    \/ \E k \in BOOLEAN : listen_forward_events_first(k)
    \/ \E k \in BOOLEAN : listen_forward_events_poll(k)
    \/ listen_forward_events_resume
    \/ listen_forward_events_wake

SpecSub == InitSub /\ [][NextSub]_vars

\* ------------------------------------------------------------------------
\* Claims about the connection manager, checked under Spec.

YieldDone == <<Ev("yield_DONE", 0)>>

\* C1: a call of initialize() made when the facade is READY yields exactly one
\* DONE and then ends; it issues no Getinfo, creates and closes no handle, and
\* leaves every attribute of the facade as it was when the call was made.
C1_InitializeWhenReady ==
    (ready_at_call /\ init_pc # "idle") =>
        /\ Facade = snap
        /\ init_pc \in {"created", "yield126", "loop154", "ended"}
        /\ events = IF init_pc = "created" THEN <<>> ELSE YieldDone

C1_Witness ==
    /\ ready_at_call
    /\ init_pc = "ended"
    /\ events = YieldDone

\* The handle of the k-th connection attempt of the current call: the handle
\* the facade held when the call was made serves the first attempt, every
\* other attempt runs on the next handle created.
AttemptHandle(k) ==
    IF snap[2] = NoHandle THEN snap[6] + k
    ELSE IF k = 1 THEN snap[3] ELSE snap[6] + k - 1

AttemptCreates(k) == snap[2] = NoHandle \/ k > 1

AttemptTrace(k) ==
    (IF AttemptCreates(k) THEN <<Ev("create", AttemptHandle(k))>> ELSE <<>>)
    \o <<Ev("Getinfo", AttemptHandle(k))>>

OfflineCycle(k) ==
    AttemptTrace(k) \o
    <<Ev("yield_OFFLINE", 0), Ev("close", AttemptHandle(k)),
      Ev("discard", AttemptHandle(k)), Ev("sleep", Backoff)>>

RECURSIVE OfflineCycles(_)
OfflineCycles(n) ==
    IF n = 0 THEN <<>> ELSE OfflineCycles(n - 1) \o OfflineCycle(n)

\* n "offline" outcomes followed by one "ok".
OfflineThenOk(n) == [i \in 1 .. n + 1 |-> IF i <= n THEN "offline" ELSE "ok"]

\* C2: when Getinfo fails N times in a row with "failed to connect to all
\* addresses" and then succeeds, the fully consumed call yields N OFFLINE and
\* then one DONE; each OFFLINE is followed by the close and the discard of the
\* handle and by the backoff sleep, and the next attempt creates a new handle
\* and runs on it.
C2_OfflineCyclesThenDone ==
    (init_pc = "ended" /\ ~ready_at_call /\ outcomes # <<>>
        /\ outcomes = OfflineThenOk(Len(outcomes) - 1)) =>
        LET n == Len(outcomes) - 1 IN
        /\ events = OfflineCycles(n) \o AttemptTrace(n + 1) \o YieldDone
        /\ \A k \in 1 .. n : AttemptHandle(k) \in closed
        /\ _channel = AttemptHandle(n + 1)
        /\ _channel \notin closed

C2_Witness ==
    /\ init_pc = "ended"
    /\ outcomes = <<"offline", "offline", "offline", "ok">>

FatalOutcomes == {"rpc_error", "exception"}

\* C3: a failure of a connection attempt that is no "failed to connect to all
\* addresses" error ends the call with the error raised: the failed attempt is
\* the last one of the call and the call does not reach READY.
C3_OtherFailureIsFatal ==
    \A i \in 1 .. Len(outcomes) :
        outcomes[i] \in FatalOutcomes =>
            /\ i = Len(outcomes)
            /\ init_pc # "getinfo163"
            /\ (init_pc \in Suspended => init_pc = "raised")
            /\ (_initialized => ready_at_call)

\* C4: an operation other than initialize issues a backend RPC only when the
\* facade is READY.
C4_NoRpcBeforeReady ==
    op_result.rpc # "none" => op_result.ready

\* C5: a public operation returns a domain entity or list, or raises one
\* HTTPException; it never returns None.  Stated for the operations run on a
\* READY facade.
C5_EntityOrClassifiedError ==
    (op_result.op # "none" /\ op_result.ready) =>
        op_result.kind \in {"entity", "http"}


\* ------------------------------------------------------------------------
\* Claims about the listing operations, checked under SpecList and SpecRound.

\* The entries list_all_tx merges when every payment is decoded.
MergedTx ==
    PayLoop(1, OnchainLoop(Len(onchain),
                           InvoiceLoop(Len(invoices), <<>>, arg_flag),
                           arg_flag),
            {}, arg_flag, TRUE).tx

\* The final ordered sequence of the last listing call.
FinalSequence ==
    CASE list_result.op = "list_all_tx" ->
            FinalOrder(MergedTx, list_result.reversed)
      [] list_result.op = "list_invoices" ->
            InvoicesOrder(arg_flag, list_result.reversed)
      [] list_result.op = "list_payments" ->
            PaymentsOrder(arg_flag, list_result.reversed)
      [] OTHER -> <<>>

\* s[offset : offset + limit], and s[offset :] when limit is 0.
PageOf(s, offset, limit) ==
    SubSeq(s, offset + 1,
           IF limit = 0 \/ offset + limit > Len(s) THEN Len(s)
           ELSE offset + limit)

\* C6: list_all_tx with successful_only=True returns only entries whose status
\* is SUCCEEDED.
C6_SuccessfulOnlyFilters ==
    (list_result.op = "list_all_tx" /\ list_result.kind = "entity" /\ arg_flag)
        => \A i \in 1 .. Len(list_result.items) :
              list_result.items[i].status = "SUCCEEDED"

\* C7: every listing operation returns the slice [offset : offset+limit] of its
\* final ordered sequence, and everything from offset on when the limit is 0.
C7_PageIsSlice ==
    list_result.kind = "entity" =>
        list_result.items = PageOf(FinalSequence, arg_offset, arg_limit)

AllTimes ==
    {invoices[i].time_stamp : i \in 1 .. Len(invoices)}
    \cup {onchain[i].time_stamp : i \in 1 .. Len(onchain)}
    \cup {pays[i].time_stamp : i \in 1 .. Len(pays)}

DistinctTimes ==
    Cardinality(AllTimes) = Len(invoices) + Len(onchain) + Len(pays)

\* list_all_tx(reversed=False) and then list_all_tx(reversed=True) both
\* returned a list, without pagination, on records with distinct timestamps.
RoundTripCase ==
    /\ arg_offset = 0
    /\ arg_limit = 0
    /\ DistinctTimes
    /\ tx_fwd.set
    /\ list_result.op = "list_all_tx"
    /\ list_result.kind = "entity"
    /\ list_result.reversed

Ascending(s) ==
    \A i \in 1 .. Len(s) - 1 : s[i].time_stamp < s[i + 1].time_stamp

\* C8 as stated: the result of reversed=False is ascending by time_stamp and,
\* reversed, equals the result of reversed=True, index fields included.
C8_ReversedEqualsWithIndex ==
    RoundTripCase =>
        /\ Ascending(tx_fwd.items)
        /\ Reverse(tx_fwd.items) = list_result.items

\* C8 as amended: the result of reversed=False is ascending by time_stamp and,
\* reversed, equals the result of reversed=True in every field but index; in
\* each of the two results index is the 0-based position in that result.
C8_ReversedEqualsUpToIndex ==
    RoundTripCase =>
        LET fwd == tx_fwd.items
            rev == list_result.items
            n == Len(fwd)
        IN  /\ n = Len(invoices) + Len(onchain) + Len(pays)
            /\ Len(rev) = n
            /\ Ascending(fwd)
            /\ \A i \in 1 .. n :
                  /\ fwd[i].index = i - 1
                  /\ rev[i].index = i - 1
                  /\ [rev[i] EXCEPT !.index = 0]
                       = [fwd[n + 1 - i] EXCEPT !.index = 0]

\* A payment older than an invoice: the merge order is not the time order.
C8_Witness ==
    /\ RoundTripCase
    /\ Len(tx_fwd.items) = 2
    /\ tx_fwd.items[1].category = "payment"
    /\ tx_fwd.items[2].category = "invoice"


\* ------------------------------------------------------------------------
\* Claims about the subscriptions, checked under SpecSub.

C10_ForwardSuffixYielded ==
    fw_pc \in {"poll", "yield", "sleep"} =>
        /\ fw_yielded = SubSeq(forwards, fw_base + 1, fw_base + Len(fw_yielded))
        /\ fw_pc = "yield" =>
              /\ fw_last_count > num_fwd_last_poll
              /\ fw_i \in 1 .. fw_last_count - num_fwd_last_poll
              /\ Len(fw_yielded) = num_fwd_last_poll - fw_base + fw_i
        /\ fw_pc \in {"poll", "sleep"} =>
              /\ num_fwd_last_poll = fw_last_count
              /\ Len(fw_yielded) = num_fwd_last_poll - fw_base

\* One poll found the list grown from 1 to 4 entries: its three new entries
\* were yielded and the watermark became 4.
C10_Witness ==
    /\ fw_pc = "sleep"
    /\ fw_base = 1
    /\ num_fwd_last_poll = 4
    /\ fw_yielded = <<[id |-> 2], [id |-> 3], [id |-> 4]>>
    /\ fw_res = forwards

\* ------------------------------------------------------------------------
\* Claims about the handle and the stub of the connection manager.

\* C18: in every reachable state the stub (_cln_stub) is set exactly when the
\* transport handle (_channel) is set and is the stub built on that handle, so
\* that a stub built on a closed handle is in place only while that handle is
\* (during the close of line 176).
C18_StubFollowsChannel == _cln_stub = _channel

\* ------------------------------------------------------------------------
\* Claims about keysend payments in the timeline.

PaymentEntries(items) ==
    Cardinality({k \in 1 .. Len(items) : items[k].category = "payment"})

\* C19: a list_all_tx call whose fetches and decodes succeed returns a list
\* with one entry for every payment the backend lists, also when a payment
\* has an empty bolt11 string.
C19_KeysendListed ==
    (list_result.op = "list_all_tx" /\ list_result.kind # "http")
        => /\ list_result.kind = "entity"
           /\ PaymentEntries(list_result.items) = Len(pays)

\* ------------------------------------------------------------------------
\* Claims about add_invoice.

RpcSteps(name) ==
    {k \in 1 .. Len(op_trace) : op_trace[k].e = "rpc" /\ op_trace[k].name = name}

\* C14: an add_invoice call with value_msat < 0 issues no Invoice RPC; one
\* with value_msat >= 0 whose Invoice RPC succeeds has asked the backend for
\* 'any' amount when value_msat is 0 and for value_msat otherwise, and
\* returns an Invoice in state OPEN whose value_msat is the requested value.
C14_AddInvoiceValue ==
    op_result.op = "add_invoice" =>
        LET value_msat == op_trace[1].arg
        IN  /\ value_msat < 0 =>
                 /\ RpcSteps("Invoice") = {}
                 /\ op_result.rpc = "none"
            /\ (value_msat >= 0 /\ Len(op_trace) >= 3
                   /\ op_trace[3] = Answer("Invoice", "ok")) =>
                 /\ op_trace[2].arg.any = (value_msat = 0)
                 /\ ~op_trace[2].arg.any => op_trace[2].arg.amount = value_msat
                 /\ op_result.kind = "entity"
                 /\ op_result.value = value_msat
                 /\ op_trace[Len(op_trace)] =
                      Return("Invoice", [value_msat |-> value_msat,
                                         state |-> "OPEN"])

\* An invoice for any amount was returned by a READY facade.
C14_Witness ==
    /\ op_result.op = "add_invoice"
    /\ op_result.ready
    /\ op_result.kind = "entity"
    /\ op_trace[1].arg = 0
    /\ op_trace[2].arg.any

\* ------------------------------------------------------------------------
\* Claims about the retry loop.

DoneReceived ==
    \E k \in 1 .. Len(events) : events[k] = Ev("yield_DONE", 0)

\* C16: whatever the number of unreachable-daemon failures before the daemon
\* answers, a consumer of initialize() that keeps consuming eventually
\* receives DONE with the facade READY, and a READY facade stays READY.
C16_EventuallyReadyForever ==
    /\ (init_pc = "created") ~> (_initialized /\ DoneReceived)
    /\ [](_initialized => [](_initialized))

\* READY was reached on the last attempt the bound allows, after OFFLINE
\* cycles only.
C16_Witness ==
    /\ _initialized
    /\ DoneReceived
    /\ Len(outcomes) = MaxAttempts
    /\ \A k \in 1 .. MaxAttempts - 1 : outcomes[k] = "offline"
    /\ outcomes[MaxAttempts] = "ok"
    /\ init_pc = "yield165"

\* ------------------------------------------------------------------------
\* Claims about the decode cache.

\* C11 as stated: in calls run one after another, no bolt11 string is decoded
\* twice.
C11_DecodeOncePerString ==
    \A j, k \in 1 .. Len(decodes) :
        j # k => decodes[j].key # decodes[k].key

\* C11: in list_all_tx calls run one after another, a decode is issued for a
\* string only if every earlier decode of that string failed: once a string
\* was decoded successfully it is in the cache and no decode is issued for it
\* again, in the same call or a later one.
C11_NoDecodeAfterSuccess ==
    /\ \A j, k \in 1 .. Len(decodes) :
          (j < k /\ decodes[j].key = decodes[k].key) => decodes[j].res = "http"
    /\ _memo_cache =
          {decodes[k].key : k \in {j \in 1 .. Len(decodes) : decodes[j].res = "ok"}}

\* Two calls returned their lists of two payments with the same bolt11 string
\* and only one decode was issued.
C11_Witness ==
    /\ Len(pays) = 2
    /\ pays[1].bolt11 = "lnbc1"
    /\ pays[2].bolt11 = "lnbc1"
    /\ \A t \in Tasks : t_pc[t] = "ended" /\ t_kind[t] = "entity"
    /\ decodes = <<[key |-> "lnbc1", task |-> 1, res |-> "ok"]>>

\* C15: in every interleaving of list_all_tx calls, each key of the decode
\* cache is written at most once, and no decode is issued for a string whose
\* decode is pending or has succeeded.
C15_KeyWrittenOnce ==
    /\ \A j, k \in 1 .. Len(writes) : j # k => writes[j] # writes[k]
    /\ \A j, k \in 1 .. Len(decodes) :
          (j < k /\ decodes[j].key = decodes[k].key) => decodes[j].res = "http"

\* ------------------------------------------------------------------------
\* Claims about the error classification.

Steps(e) == {k \in 1 .. Len(op_trace) : op_trace[k].e = e}

\* The failed answers in the trace of the last call.
FailedAnswers ==
    {k \in Steps("answer") : op_trace[k].name # "Invoice" /\ ~op_trace[k].arg.ok}

\* C12: a send_coins call whose Withdraw fails with a detail containing
\* "insufficient funds available" ends with status 412, and a connect_peer
\* call whose RPC fails with a detail containing "Connection timed out" ends
\* with status 504, whatever else the detail contains.
C12_DetailDecidesStatus ==
    \A k \in FailedAnswers :
        /\ (op_result.op = "send_coins" /\ op_trace[k].name = "Withdraw"
               /\ "insufficient funds available" \in op_trace[k].arg.details)
             => (op_result.kind = "http" /\ op_result.code = HTTP_412)
        /\ (op_result.op = "connect_peer"
               /\ "Connection timed out" \in op_trace[k].arg.details)
             => (op_result.kind = "http" /\ op_result.code = HTTP_504)

\* C13: a call whose RPC fails with a detail that matches none of the
\* operation's patterns ends with status 500, and a log record with that
\* detail is written before the error is raised.
C13_UnmatchedIsLoggedInternal ==
    \A k \in FailedAnswers :
        op_trace[k].arg.details = {} =>
            /\ op_result.kind = "http"
            /\ op_result.code = HTTP_500
            /\ \E l \in Steps("log") :
                  /\ k < l
                  /\ op_trace[l].arg = op_trace[k].arg.details
                  /\ \A r \in Steps("raise") : l < r

\* ------------------------------------------------------------------------
\* Claims about send_coins.

\* C17: a send_coins call that returns a response has notified the sink
\* exactly once, right after the successful answer of its Withdraw, with the
\* message of this send; a call that fails has not notified it; and a call
\* whose funds check fails has issued no Withdraw.
C17_SinkNotifiedOncePerSend ==
    op_result.op = "send_coins" =>
        LET input == op_trace[1].arg
            funds == op_trace[3].arg
        IN  /\ op_result.kind = "entity" =>
                 /\ Cardinality(Steps("sse")) = 1
                 /\ \A b \in Steps("sse") :
                       /\ op_trace[b - 1].e = "answer"
                       /\ op_trace[b - 1].name = "Withdraw"
                       /\ op_trace[b - 1].arg.ok
                 /\ Len(sse) >= 1
                 /\ sse[Len(sse)].amount = input.amount
            /\ op_result.kind # "entity" => Steps("sse") = {}
            /\ (funds.ok /\ (\/ Len(funds.value) = 0
                              \/ /\ ~input.send_all
                                 /\ SumOutputs(funds.value, Len(funds.value))
                                      <= input.amount))
                 => RpcSteps("Withdraw") = {}

\* A second send was answered by Withdraw and reached the sink.
C17_Witness ==
    /\ op_result.op = "send_coins"
    /\ op_result.kind = "entity"
    /\ Len(sse) = 2
    /\ ~op_trace[1].arg.send_all
    /\ Steps("sse") = {6}

\* The fee-rate class the claim gives for a target.
ClaimedFeerate(target_conf) ==
    IF target_conf = 1 THEN "urgent"
    ELSE IF target_conf >= 2 /\ target_conf <= 9 THEN "normal"
    ELSE "slow"

\* C20: for every target_conf >= 1, send_coins with no sat_per_vbyte and
\* channel_open ask the backend for the same fee-rate class: urgent for 1,
\* normal for 2 to 9, slow for 10 and above.
C20_SameFeerateClass ==
    /\ op_result.op = "send_coins" =>
          \A k \in RpcSteps("Withdraw") :
              (op_trace[1].arg.sat_per_vbyte = NoneArg
                 /\ op_trace[1].arg.target_conf >= 1)
                => op_trace[k].arg.feerate =
                     ClaimedFeerate(op_trace[1].arg.target_conf)
    /\ op_result.op = "channel_open" =>
          \A k \in RpcSteps("FundChannel") :
              op_trace[1].arg.target_confs >= 1
                => op_trace[k].arg.feerate =
                     ClaimedFeerate(op_trace[1].arg.target_confs)

====
